---- MODULE Spec2Model ----
(***************************************************************************)
(* Model of the vCon telephony adapters: one adapter process (uvicorn, one *)
(* event loop) receiving recording webhooks, building a vCon, posting it   *)
(* to the conserver and recording the outcome in the file-backed           *)
(* StateTracker.                                                           *)
(*                                                                         *)
(* Recording ids are modelled as 1..NumIds (the strings "R1", "R2", ...),  *)
(* vCon uuids as 1, 2, ... in order of creation, 0 standing for the empty  *)
(* string "" that the handlers store when no vCon was built.               *)
(***************************************************************************)
EXTENDS Integers, FiniteSets, Sequences, TLC

\* ------------------------------------------------------------------ bounds
NumIds == 2
NumHandlers == 2
MaxEvents == 2
MaxRestarts == 1

Ids == 1..NumIds
Handlers == 1..NumHandlers

\* ------------------------------------------------------- StateTracker data
\* An entry of StateTracker.state: {"vcon_uuid", "timestamp", "status"}.
NoEntry == [vcon_uuid |-> 0, timestamp |-> 0, status |-> "absent"]

EmptyStore == [i \in Ids |-> NoEntry]

Keys(store) == {i \in Ids : store[i] # NoEntry}

\* The value json.load produced, as held in self.state: a dict, or (when the
\* file held a JSON array) a list of strings.
EmptyDict == [kind |-> "dict", store |-> EmptyStore, items |-> {}]

\* Contents of the state file.
\*   missing : the path does not exist
\*   invalid : empty file, text that is not JSON, or a truncated write
\*   scalar  : valid JSON number / null / boolean
\*   array   : valid JSON array of strings (items)
\*   object  : valid JSON object keyed by recording id (store)
FileOf(kind, store, items) == [kind |-> kind, store |-> store, items |-> items]

MissingFile == FileOf("missing", EmptyStore, {})

InvalidFile == FileOf("invalid", EmptyStore, {})

\* Mutant of Load: the tracker starts empty whatever the file holds.
LoadIgnoringFile(f) == EmptyDict

\* StateTracker._load: a missing file gives {}; json.load raising gives {};
\* a JSON scalar makes len(self.state) raise inside the try and gives {};
\* a JSON array is kept as self.state; a JSON object is kept as self.state.
Load(f) ==
    CASE f.kind = "object" -> [kind |-> "dict", store |-> f.store, items |-> {}]
      [] f.kind = "array"  -> [kind |-> "list", store |-> EmptyStore, items |-> f.items]
      [] OTHER             -> EmptyDict

\* Mutant of is_processed: only a successful delivery counts as processed.
is_processed_success_only(st, id) ==
    IF st.kind = "dict" THEN st.store[id].status = "success" ELSE id \in st.items

\* StateTracker.is_processed: recording_id in self.state.
is_processed(st, id) ==
    IF st.kind = "dict" THEN st.store[id] # NoEntry ELSE id \in st.items

\* self.state[recording_id] = entry raises TypeError when self.state is a list.
MarkRaises(st) == st.kind # "dict"

\* StateTracker.mark_processed up to the call of _save.
SaveOutcomes == {"ok", "open_failed", "write_failed"}

\* Mutant of StoreAfterMark: the store is replaced by the new entry alone.
StoreAfterMarkAlone(st, id, uuid, status, now) ==
    [st EXCEPT !.store = [EmptyStore EXCEPT
                             ![id] = [vcon_uuid |-> uuid, timestamp |-> now, status |-> status]]]

StoreAfterMark(st, id, uuid, status, now) ==
    [st EXCEPT !.store[id] = [vcon_uuid |-> uuid, timestamp |-> now, status |-> status]]

\* Mutant of FileAfterSave: json.dump(list(self.state)) writes the keys only.
FileAfterSaveKeysOnly(f, st, outcome) ==
    CASE outcome = "ok"           -> FileOf("array", EmptyStore, Keys(st.store))
      [] outcome = "open_failed"  -> f
      [] outcome = "write_failed" -> InvalidFile

\* Mutant of FileAfterSave: the file is opened in append mode, so a write
\* over existing text leaves two JSON documents in a row.
FileAfterSaveAppending(f, st, outcome) ==
    CASE outcome = "ok" /\ f.kind = "missing" -> FileOf("object", st.store, {})
      [] outcome = "ok"                        -> InvalidFile
      [] outcome = "open_failed"               -> f
      [] outcome = "write_failed"              -> InvalidFile

\* StateTracker._save: open(..., 'w') then json.dump; every exception is
\* logged and swallowed.  open failing leaves the file as it was; a failure
\* after open has truncated the file leaves partial text.
FileAfterSave(f, st, outcome) ==
    CASE outcome = "ok"           -> FileOf("object", st.store, {})
      [] outcome = "open_failed"  -> f
      [] outcome = "write_failed" -> InvalidFile

\* get_vcon_uuid / get_processing_status on a dict state (None modelled as
\* the NoEntry fields).
get_vcon_uuid(st, id) == st.store[id].vcon_uuid

get_processing_status(st, id) == st.store[id].status

\* ------------------------------------------------------------ configuration
\* What create_app reads from the configuration: the adapter, the
\* download_recordings flag, and the optional retrieval endpoints
\* (asterisk_ari_url for Asterisk, recordings_url_base for FreeSWITCH), and
\* recording_format, which BaseConfig only accepts as wav or mp3.
Platforms == {"twilio", "asterisk", "freeswitch", "telnyx", "bandwidth"}

Formats == {"wav", "mp3"}

Configs ==
    {c \in [platform : Platforms, download : BOOLEAN, ari_url : BOOLEAN, url_base : BOOLEAN,
            format : Formats] :
        /\ c.ari_url => c.platform = "asterisk"
        /\ c.url_base => c.platform = "freeswitch"}

\* --------------------------------------------------------- audio retrieval
\* Where the payload says the recording is: nowhere (recording_url is empty),
\* an absolute http(s) URL, or any other string (file: URI, bare path).
Locs == {"none", "http", "path"}

\* What one retrieval attempt can do.  For requests.get: a 200 response with
\* the audio, a 200 response with an empty body, a non-success status, an
\* exception derived from requests.RequestException, or any other exception.
\* For open()/read(): the bytes, an empty file, an OSError, or any other
\* exception (ValueError for an embedded null byte, ...).
HttpOutcomes == {"ok", "empty", "status", "transport", "other"}

FileOutcomes == {"ok", "empty", "oserror", "other"}

StrategyNames == {"ari", "http", "file", "base"}

OutcomeOf == [ari : HttpOutcomes, http : HttpOutcomes, file : FileOutcomes, base : HttpOutcomes]

\* Mutant of Strategies: the Asterisk fetcher tries the direct URL before
\* the ARI endpoint.
StrategiesUrlFirst(c, loc, hasFile) ==
    CASE c.platform = "asterisk" ->
              (IF loc = "http" THEN <<"http">> ELSE <<>>)
           \o (IF c.ari_url THEN <<"ari">> ELSE <<>>)
           \o (IF hasFile THEN <<"file">> ELSE <<>>)
      [] c.platform = "freeswitch" ->
              (IF loc = "http" THEN <<"http">> ELSE <<>>)
           \o (IF hasFile THEN <<"file">> ELSE <<>>)
           \o (IF c.url_base THEN <<"base">> ELSE <<>>)
      [] OTHER -> <<"http">>

\* The strategies _download_recording attempts, in the order of the code,
\* for an event with location kind loc (never "none" here: build only
\* calls the fetcher for a non-empty recording_url) and hasFile telling
\* whether recording_file_path is non-empty.
Strategies(c, loc, hasFile) ==
    CASE c.platform = "asterisk" ->
              (IF c.ari_url THEN <<"ari">> ELSE <<>>)
           \o (IF loc = "http" THEN <<"http">> ELSE <<>>)
           \o (IF hasFile THEN <<"file">> ELSE <<>>)
      [] c.platform = "freeswitch" ->
              (IF loc = "http" THEN <<"http">> ELSE <<>>)
           \o (IF hasFile THEN <<"file">> ELSE <<>>)
           \o (IF c.url_base THEN <<"base">> ELSE <<>>)
      [] OTHER -> <<"http">>

\* Which failures of an attempt the code catches (and goes on): the Twilio
\* builder tests status_code == 200 and catches Exception; the other
\* builders call raise_for_status and catch requests.RequestException around
\* requests.get, and OSError around open().
Caught(c, strategy, outcome) ==
    IF c.platform = "twilio"
    THEN outcome # "ok"
    ELSE outcome \in {"status", "transport", "oserror"}

\* _download_recording: the content of the first attempt that succeeds is
\* returned ("bytes", or "empty" for zero bytes), a caught failure moves on
\* to the next strategy, an uncaught exception leaves the function; when
\* nothing is left it returns None.
RECURSIVE RunStrategies(_, _, _, _)
RunStrategies(c, todo, o, tried) ==
    IF todo = <<>>
    THEN [res |-> "none", tried |-> tried]
    ELSE LET s == Head(todo)
             t == Append(tried, s)
         IN  CASE o[s] = "ok"        -> [res |-> "bytes", tried |-> t]
               [] o[s] = "empty"     -> [res |-> "empty", tried |-> t]
               [] Caught(c, s, o[s]) -> RunStrategies(c, Tail(todo), o, t)
               [] OTHER              -> [res |-> "raise", tried |-> t]

_download_recording(c, loc, hasFile, o) ==
    RunStrategies(c, Strategies(c, loc, hasFile), o, <<>>)

\* ------------------------------------------------------------------ builder
\* What a handler keeps of BaseVconBuilder.build's result:
\*   built : FALSE when build returned None
\*   uuid  : the vCon's uuid (0 when not built)
\*   audio : "body" (embedded base64), "url" (URL reference) or "none"
\*   fetch : "not_invoked", "ok", "empty" (the fetcher returned zero bytes),
\*           "failed" (the fetcher returned None) or "raised" (an exception
\*           left the fetcher)
\*   err   : an unexpected exception outside the fetcher was raised in build
NoVcon == [built |-> FALSE, uuid |-> 0, audio |-> "none", fetch |-> "not_invoked", err |-> FALSE]

\* A key dialog_kwargs does not have.
Absent == "absent"

\* f"{stem}.{ext}"
Dotted(stem, ext) == <<stem, ".", ext>>

\* base64.b64encode(audio_data).decode('utf-8')
b64encode(data) == <<"base64", data>>

\* Mutant of dialog_audio: the URL reference is set whenever a location
\* exists, embedded audio or not.
dialog_audio_url_always(c, id, loc, d) ==
    [body     |-> IF d = "bytes" THEN b64encode(id) ELSE Absent,
     encoding |-> IF d = "bytes" THEN "base64" ELSE Absent,
     filename |-> IF d = "bytes" THEN Dotted(id, c.format) ELSE Absent,
     url      |-> IF loc # "none" THEN Dotted(loc, c.format) ELSE Absent]

\* The audio keys build puts into dialog_kwargs, d being what the fetcher
\* returned ("skip" when it was not invoked): body, encoding and filename for
\* non-empty bytes, url for a location without them, nothing otherwise.  The
\* bytes of a recording are identified with its id.
dialog_audio(c, id, loc, d) ==
    IF c.download /\ loc # "none"
    THEN IF d = "bytes"
         THEN [body |-> b64encode(id), encoding |-> "base64",
               filename |-> Dotted(id, c.format), url |-> Absent]
         ELSE [body |-> Absent, encoding |-> Absent, filename |-> Absent,
               url |-> Dotted(loc, c.format)]
    ELSE IF loc # "none"
         THEN [body |-> Absent, encoding |-> Absent, filename |-> Absent,
               url |-> Dotted(loc, c.format)]
         ELSE [body |-> Absent, encoding |-> Absent, filename |-> Absent, url |-> Absent]

\* Mutant of Fetched: a configured ARI endpoint is enough for build to call
\* the fetcher, location or not.
FetchedWithAri(c, loc, hasFile, o) ==
    IF c.download /\ (loc # "none" \/ c.ari_url)
    THEN _download_recording(c, loc, hasFile, o).res ELSE "skip"

\* What the fetcher hands to build.
Fetched(c, loc, hasFile, o) ==
    IF c.download /\ loc # "none" THEN _download_recording(c, loc, hasFile, o).res ELSE "skip"

\* BaseVconBuilder.build: everything runs inside try/except Exception, which
\* returns None; the fetcher is invoked only when download_recordings is set
\* and recording_url is non-empty.
build(c, loc, hasFile, o, err, uuid) ==
    LET d      == Fetched(c, loc, hasFile, o)
        fetch  == CASE d = "skip"  -> "not_invoked"
                    [] d = "bytes" -> "ok"
                    [] d = "empty" -> "empty"
                    [] d = "none"  -> "failed"
                    [] OTHER       -> "raised"
        dlg    == dialog_audio(c, 0, loc, d)
        audio  == CASE dlg.body # Absent -> "body"
                    [] dlg.url # Absent  -> "url"
                    [] OTHER             -> "none"
    IN  IF err \/ d = "raise"
        THEN [NoVcon EXCEPT !.fetch = fetch, !.err = err]
        ELSE [built |-> TRUE, uuid |-> uuid, audio |-> audio, fetch |-> fetch, err |-> FALSE]

\* ------------------------------------------------------------------- poster
\* HttpPoster.post: True iff requests.post returned a status in [200, 300);
\* "serialize" is vcon.to_json() raising before anything is sent, "transport"
\* an exception raised by requests.post; both are caught and give False.
PostOutcomes == {"2xx", "non2xx", "transport", "serialize"}

post(outcome) == outcome = "2xx"

\* A request is on the wire for every outcome but a serialization error.
PostSent(outcome) == outcome # "serialize"

\* The status codes a response can carry, and the range post takes as success:
\* 200 <= response.status_code < 300.
StatusCodes == 100..599

SuccessFrom == 200

SuccessBelow == 300

\* One call of post in detail: whether vcon.to_json() returns or raises, how
\* requests.post ends (a response, or one of the exceptions it raises), and
\* the status code of the response.
PostAttempts ==
    [fn : {"post"}, serialize : {"ok", "raise"},
     send : {"response", "timeout", "connection", "tls", "other"}, status : StatusCodes]

\* Mutant of Classify: a status of 300 is taken as success.
ClassifyInclusive(a) ==
    CASE a.serialize = "raise" -> "serialize"
      [] a.send # "response"   -> "transport"
      [] SuccessFrom <= a.status /\ a.status <= SuccessBelow -> "2xx"
      [] OTHER -> "non2xx"

\* The path post takes for an attempt, in the order of its code.
Classify(a) ==
    CASE a.serialize = "raise" -> "serialize"
      [] a.send # "response"   -> "transport"
      [] SuccessFrom <= a.status /\ a.status < SuccessBelow -> "2xx"
      [] OTHER -> "non2xx"

\* Whether an exception leaves post: its whole body is inside
\* try / except Exception, whose handler returns False.
PostRaises(a) == FALSE

\* ------------------------------------------------------------------- state
VARIABLES
    cfg,        \* the configuration the process was started with
    file,       \* contents of the tracker's state file
    state,      \* StateTracker.state of the running process
    pc,         \* per request slot: where its handler coroutine is
    req,        \* per request slot: the request being handled
    vcon,       \* per request slot: what builder.build returned
    success,    \* per request slot: what poster.post returned
    last,       \* the request answered most recently and its response
    running,    \* the coroutine the event loop is executing (0: none)
    posts,      \* per recording id: requests sent to the conserver
    nextUuid,   \* the uuid Vcon.build_new() hands out next
    events,     \* webhook requests received so far
    restarts,   \* process restarts so far
    handled,    \* ids whose qualifying event ended in the running process
    completed,  \* ids whose handler ever ran the pipeline to its return
    lastSave,   \* how the latest _save of the running tracker ended
    arg,        \* the inputs of a function examined on its own
    out         \* what that function returned for them

\* The state of the adapter process and its surroundings.
pipeline == <<cfg, file, state, pc, req, vcon, success, last, running, posts,
              nextUuid, events, restarts, handled, completed, lastSave>>

vars == <<cfg, file, state, pc, req, vcon, success, last, running, posts,
          nextUuid, events, restarts, handled, completed, lastSave, arg, out>>

\* No function is being examined / it has not been called yet.
NoArg == [fn |-> "none"]

NoOut == [fn |-> "none"]

\* A webhook request: the recording id it names and what the receiver makes
\* of it.  "event" is an authentic, parseable, qualifying recording event;
\* "filtered" one the receiver ignores (RecordingStatus other than completed,
\* an event type outside the accepted set, no recording id); "badauth" fails
\* signature / credential validation; "badjson" has an unparsable body (the
\* receiver never reads an id from either: id 0); "noid" is an authentic,
\* parseable request that names no recording id (id 0).
ReqKinds == {"event", "filtered", "noid", "badauth", "badjson"}

NoReq == [id |-> 0, kind |-> "none"]

\* The JSON body of a response that has none of interest.
NoBody == [vcon_uuid |-> 0, status |-> "none"]

NoLast == [id |-> 0, kind |-> "none", resp |-> "none", how |-> "none", body |-> NoBody]

\* datetime.now(timezone.utc): logical time, advanced by every request the
\* process receives.
Now == events

\* Stores a previous run of the adapter may have left in the state file.
PriorStores ==
    {EmptyStore,
     [EmptyStore EXCEPT ![1] = [vcon_uuid |-> 1, timestamp |-> 0, status |-> "success"]]}

InitFiles ==
    {MissingFile, InvalidFile, FileOf("scalar", EmptyStore, {})}
    \cup {FileOf("array", EmptyStore, {1})}
    \cup {FileOf("object", s, {}) : s \in PriorStores}

\* The configurations the pipeline is explored under: every handler runs the
\* same pipeline, the configuration only decides what build can return.
PipelineConfigs ==
    {c \in Configs : /\ c.download
                     /\ c.platform \in {"twilio", "asterisk"}
                     /\ ~c.ari_url
                     /\ c.format = "wav"}

\* create_app: builder, poster and StateTracker(config.state_file) are
\* constructed once; the tracker loads the file.
InitWith(configs, files) ==
    /\ cfg \in configs
    /\ file \in files
    /\ state = Load(file)
    /\ pc = [h \in Handlers |-> "idle"]
    /\ req = [h \in Handlers |-> NoReq]
    /\ vcon = [h \in Handlers |-> NoVcon]
    /\ success = [h \in Handlers |-> FALSE]
    /\ last = NoLast
    /\ running = 0
    /\ posts = [i \in Ids |-> 0]
    /\ nextUuid = 2
    /\ events = 0
    /\ restarts = 0
    /\ handled = {}
    /\ completed = {}
    /\ lastSave = "none"

Init == InitWith(PipelineConfigs, InitFiles) /\ arg = NoArg /\ out = NoOut

\* The builder explored under every adapter, download setting and set of
\* retrieval endpoints, over a fresh state file.
InitBuild ==
    InitWith({c \in Configs : c.format = "wav"}, {MissingFile}) /\ arg = NoArg /\ out = NoOut

\* The handler returns (or raises): the response goes out, the coroutine and
\* its locals are gone and the event loop is free again.
Finish(h, r, branch) ==
    /\ pc' = [pc EXCEPT ![h] = "idle"]
    /\ req' = [req EXCEPT ![h] = NoReq]
    /\ vcon' = [vcon EXCEPT ![h] = NoVcon]
    /\ success' = [success EXCEPT ![h] = FALSE]
    /\ last' = [id |-> req[h].id, kind |-> req[h].kind, resp |-> r, how |-> branch,
                body |-> NoBody]
    /\ running' = 0
    /\ handled' = IF req[h].kind = "event" THEN handled \cup {req[h].id} ELSE handled

\* A request arrives; its handler starts and suspends at its first await
\* (request.body() / request.form()).
Receive(h, id, kind) ==
    /\ pc[h] = "idle"
    /\ id = 0 <=> kind \in {"noid", "badauth", "badjson"}
    /\ events < MaxEvents
    /\ events' = events + 1
    /\ pc' = [pc EXCEPT ![h] = "await"]
    /\ req' = [req EXCEPT ![h] = [id |-> id, kind |-> kind]]
    /\ UNCHANGED <<cfg, file, state, vcon, success, last, running, posts, nextUuid,
                   restarts, handled, completed, lastSave, arg, out>>

\* Mutant of CanResume: a handler resumes while another one is mid-pipeline
\* (as if build and post were awaited).
CanResumeAnytime(h) == TRUE

\* asyncio runs one coroutine at a time: a suspended handler is resumed only
\* when the running one awaits or returns, and the handlers have no await
\* after their first.
CanResume(h) == running = 0

\* Mutant of FilterResponse: every adapter answers OK to a request without
\* a recording id.
FilterResponseAlwaysOK(c, kind) == "OK"

\* What a request the receiver does not process is answered: the Twilio
\* endpoint declares RecordingSid as a required form field, so the framework
\* answers a request without it 422 and the handler never runs; every other
\* filter (RecordingStatus, event type, "if not recording_id") returns "OK".
FilterResponse(c, kind) ==
    IF c.platform = "twilio" /\ kind = "noid" THEN "422" ELSE "OK"

\* The event loop resumes the handler once no other coroutine is running:
\* validation, body parsing, the event filter and tracker.is_processed follow
\* without a further await.
Check(h) ==
    /\ pc[h] = "await"
    /\ CanResume(h)
    /\ CASE req[h].kind = "badauth"  -> Finish(h, "403", "rejected")
         [] req[h].kind = "badjson"  -> Finish(h, "400", "unparsable")
         [] req[h].kind \in {"filtered", "noid"} ->
              Finish(h, FilterResponse(cfg, req[h].kind), "filtered")
         [] OTHER ->
              IF is_processed(state, req[h].id)
              THEN Finish(h, "OK", "skipped")
              ELSE /\ pc' = [pc EXCEPT ![h] = "build"]
                   /\ running' = h
                   /\ UNCHANGED <<req, vcon, success, last, handled>>
    /\ UNCHANGED <<cfg, file, state, posts, nextUuid, events, restarts, completed,
                   lastSave, arg, out>>

\* Everything build can return in a process configured with c, over the
\* payloads and the behaviours of the network and the file system.
BuildOutcomes ==
    {<<c, build(c, loc, hasFile, o, err, 1)>> :
        c \in Configs, loc \in Locs, hasFile \in BOOLEAN, o \in OutcomeOf, err \in BOOLEAN}

BuildResults(c, uuid) ==
    {[p[2] EXCEPT !.uuid = IF p[2].built THEN uuid ELSE 0] :
        p \in {q \in BuildOutcomes : q[1] = c}}

\* Mutant of AfterBuild: the handler goes on to the POST whatever build returned.
AfterBuildAlwaysPost(v) == "post"

\* "if not vcon:" after the build: mark_processed(..., "build_failed") and
\* return without a POST, else go on to the POST.
AfterBuild(v) == IF v.built THEN "post" ELSE "mark"

\* vcon = builder.build(recording_data)
Build(h) ==
    /\ pc[h] = "build"
    /\ \E v \in BuildResults(cfg, nextUuid) :
          /\ vcon' = [vcon EXCEPT ![h] = v]
          /\ nextUuid' = IF v.built THEN nextUuid + 1 ELSE nextUuid
          /\ pc' = [pc EXCEPT ![h] = AfterBuild(v)]
    /\ UNCHANGED <<cfg, file, state, req, success, last, running, posts, events,
                   restarts, handled, completed, lastSave, arg, out>>

\* success = poster.post(vcon)
Post(h) ==
    /\ pc[h] = "post"
    /\ \E sent \in PostOutcomes :
          /\ success' = [success EXCEPT ![h] = post(sent)]
          /\ posts' = [posts EXCEPT ![req[h].id] = @ + (IF PostSent(sent) THEN 1 ELSE 0)]
    /\ pc' = [pc EXCEPT ![h] = "mark"]
    /\ UNCHANGED <<cfg, file, state, req, vcon, last, running, nextUuid, events,
                   restarts, handled, completed, lastSave, arg, out>>

\* Mutant of StatusOf: the result of poster.post is not looked at.
StatusOfIgnoringPost(v, ok) ==
    IF ~v.built THEN "build_failed" ELSE "success"

\* The status the handler passes to mark_processed.
StatusOf(v, ok) ==
    IF ~v.built THEN "build_failed" ELSE IF ok THEN "success" ELSE "post_failed"

\* tracker.mark_processed(recording_id, vcon.uuid or "", status=...) followed
\* by return "OK"; a TypeError raised by mark_processed leaves the handler
\* and the framework answers 500.
Mark(h) ==
    /\ pc[h] = "mark"
    /\ IF MarkRaises(state)
       THEN /\ Finish(h, "500", "raised")
            /\ UNCHANGED <<file, state, completed, lastSave>>
       ELSE \E sv \in SaveOutcomes :
              /\ state' = StoreAfterMark(state, req[h].id, vcon[h].uuid,
                                         StatusOf(vcon[h], success[h]), Now)
              /\ file' = FileAfterSave(file, state', sv)
              /\ lastSave' = sv
              /\ completed' = completed \cup {req[h].id}
              /\ Finish(h, "OK", "processed")
    /\ UNCHANGED <<cfg, posts, nextUuid, events, restarts, arg, out>>

\* get_recording_status, the handler of GET /status/{recording_id}: 404 when
\* is_processed is false; otherwise the id with get_vcon_uuid and
\* get_processing_status, which call self.state.get and so raise
\* AttributeError (answered 500) when self.state is a list.
get_recording_status(st, id) ==
    CASE ~is_processed(st, id) -> [resp |-> "404", body |-> NoBody]
      [] st.kind # "dict"      -> [resp |-> "500", body |-> NoBody]
      [] OTHER                 -> [resp |-> "200",
                                   body |-> [vcon_uuid |-> get_vcon_uuid(st, id),
                                             status    |-> get_processing_status(st, id)]]

\* A status query is handled; the handler has no await, and runs when the
\* event loop is free.
Query(id) ==
    /\ running = 0
    /\ LET r == get_recording_status(state, id)
       IN  last' = [id |-> id, kind |-> "status", resp |-> r.resp, how |-> "queried",
                    body |-> r.body]
    /\ UNCHANGED <<cfg, file, state, pc, req, vcon, success, running, posts, nextUuid,
                   events, restarts, handled, completed, lastSave, arg, out>>

\* The process stops (crash or shutdown) and is started again on the same
\* state file: every coroutine is gone, a new StateTracker loads the file.
Restart ==
    /\ restarts < MaxRestarts
    /\ restarts' = restarts + 1
    /\ state' = Load(file)
    /\ lastSave' = "none"
    /\ pc' = [h \in Handlers |-> "idle"]
    /\ req' = [h \in Handlers |-> NoReq]
    /\ vcon' = [h \in Handlers |-> NoVcon]
    /\ success' = [h \in Handlers |-> FALSE]
    /\ last' = NoLast
    /\ running' = 0
    /\ handled' = {}
    /\ UNCHANGED <<cfg, file, posts, nextUuid, events, completed, arg, out>>

Next ==
    \/ \E h \in Handlers, id \in Ids \cup {0}, kind \in ReqKinds : Receive(h, id, kind)
    \/ \E h \in Handlers : Check(h)
    \/ \E h \in Handlers : Build(h)
    \/ \E h \in Handlers : Post(h)
    \/ \E h \in Handlers : Mark(h)
    \/ \E id \in Ids : Query(id)
    \/ Restart

Spec == Init /\ [][Next]_vars

SpecBuild == InitBuild /\ [][Next]_vars

\* ------------------------------------------------- functions on their own
\* The adapter process is idle while a function is examined on its own.
IdleProcess ==
    InitWith({[platform |-> "twilio", download |-> TRUE, ari_url |-> FALSE,
               url_base |-> FALSE, format |-> "wav"]}, {MissingFile})

\* builder.build(recording_data) for one event: the configuration of the
\* builder, the recording id and location of the payload, whether the payload
\* gives a file path, how each retrieval attempt ends, and whether anything
\* else in build raises.
BuildArgs ==
    [fn : {"build"}, c : Configs, id : Ids, loc : Locs, hasFile : BOOLEAN,
     o : OutcomeOf, err : BOOLEAN]

InitRecord == IdleProcess /\ arg \in BuildArgs /\ out = NoOut

\* The record build returns and the audio keys of its single dialog.
ApplyBuild ==
    /\ arg.fn = "build"
    /\ out = NoOut
    /\ LET v == build(arg.c, arg.loc, arg.hasFile, arg.o, arg.err, 1)
           d == Fetched(arg.c, arg.loc, arg.hasFile, arg.o)
       IN  out' = [fn |-> "build", vcon |-> v, fetched |-> d,
                   dialog |-> IF v.built THEN dialog_audio(arg.c, arg.id, arg.loc, d)
                              ELSE Absent]
    /\ UNCHANGED <<pipeline, arg>>

SpecRecord == InitRecord /\ [][ApplyBuild]_vars

\* ---- the audio fetcher
\* builder._download_recording(recording_data) for an event with a location.
FetchArgs ==
    [fn : {"fetch"}, c : Configs, loc : Locs \ {"none"}, hasFile : BOOLEAN, o : OutcomeOf]

InitFetch == IdleProcess /\ arg \in FetchArgs /\ out = NoOut

ApplyFetch ==
    /\ arg.fn = "fetch"
    /\ out = NoOut
    /\ LET r == _download_recording(arg.c, arg.loc, arg.hasFile, arg.o)
       IN  out' = [fn |-> "fetch", res |-> r.res, tried |-> r.tried]
    /\ UNCHANGED <<pipeline, arg>>

SpecFetch == InitFetch /\ [][ApplyFetch]_vars

\* ---- configuration loading
\* The environment variables configuration loading looks at.  "unset" is a
\* variable that is not in the environment, "empty" one set to "".
\*   conserver_url : CONSERVER_URL
\*   port          : PORT ("text" is a value int() rejects)
\*   format        : RECORDING_FORMAT
\*   validate      : VALIDATE_TWILIO_SIGNATURE / VALIDATE_<PLATFORM>_WEBHOOK
\*   secret        : TWILIO_AUTH_TOKEN, <PLATFORM>_WEBHOOK_SECRET,
\*                   TELNYX_PUBLIC_KEY, BANDWIDTH_WEBHOOK_USERNAME/_PASSWORD
Envs ==
    [conserver_url : {"unset", "empty", "set"},
     port          : {"unset", "8080", "text"},
     format        : {"unset", "empty", "wav", "mp3", "WAV", "ogg"},
     validate      : {"unset", "true", "YES", "false", "on"},
     secret        : {"unset", "empty", "set"}]

\* os.getenv(name, default)
getenv(v, default) == IF v = "unset" THEN default ELSE v

\* str.lower() on the values above.
lower(v) ==
    CASE v = "WAV" -> "wav"
      [] v = "YES" -> "yes"
      [] OTHER     -> v

\* Python truth of an os.getenv result without default: None and "" are false.
Truthy(v) == v \notin {"unset", "empty"}

\* The default of the validation switch: on for Twilio, Telnyx and Bandwidth,
\* off for Asterisk and FreeSWITCH.
ValidateDefault(platform) ==
    IF platform \in {"twilio", "telnyx", "bandwidth"} THEN "true" ELSE "false"

\* os.getenv(..., default).lower() in ("true", "1", "yes")
ValidationEnabled(platform, env) ==
    lower(getenv(env.validate, ValidateDefault(platform))) \in {"true", "1", "yes"}

\* BaseConfig.__init__: the checks that raise ValueError.
BaseConfigRaises(env) ==
    \/ env.port = "text"
    \/ ~Truthy(env.conserver_url)
    \/ lower(getenv(env.format, "wav")) \notin {"wav", "mp3"}

\* Mutant of PlatformConfigRaises: no adapter checks for its secret.
PlatformConfigNeverRaises(platform, env) == FALSE

\* The platform's own __init__ after super().__init__: only TwilioConfig
\* raises, when validation is on and TWILIO_AUTH_TOKEN is missing.
PlatformConfigRaises(platform, env) ==
    /\ platform = "twilio"
    /\ ValidationEnabled(platform, env)
    /\ ~Truthy(env.secret)

\* <Platform>Config(): ValueError raised, or the loaded settings.
load_config(platform, env) ==
    IF BaseConfigRaises(env) \/ PlatformConfigRaises(platform, env)
    THEN [raised |-> TRUE, platform |-> platform, format |-> "", validate |-> FALSE,
          secret |-> FALSE]
    ELSE [raised   |-> FALSE,
          platform |-> platform,
          format   |-> lower(getenv(env.format, "wav")),
          validate |-> ValidationEnabled(platform, env),
          secret   |-> Truthy(env.secret)]

StartupArgs == [fn : {"startup"}, platform : Platforms, env : Envs]

InitStartup == IdleProcess /\ arg \in StartupArgs /\ out = NoOut

\* main(): the adapter's run function loads the configuration; a ValueError
\* is caught by main, which prints it and calls sys.exit(1); otherwise the
\* app is created and uvicorn serves it.
ApplyStartup ==
    /\ arg.fn = "startup"
    /\ out = NoOut
    /\ LET c == load_config(arg.platform, arg.env)
       IN  out' = [fn |-> "startup", exited |-> c.raised, serving |-> ~c.raised,
                   config |-> c]
    /\ UNCHANGED <<pipeline, arg>>

SpecStartup == InitStartup /\ [][ApplyStartup]_vars

\* ---- the poster
InitPoster == IdleProcess /\ arg \in PostAttempts /\ out = NoOut

\* poster.post(vcon)
ApplyPost ==
    /\ arg.fn = "post"
    /\ out = NoOut
    /\ out' = [fn |-> "post", ret |-> post(Classify(arg)), raised |-> PostRaises(arg),
                sent |-> PostSent(Classify(arg))]
    /\ UNCHANGED <<pipeline, arg>>

SpecPoster == InitPoster /\ [][ApplyPost]_vars

\* ---- request validation
\* What a request presents as its signature (X-Twilio-Signature,
\* X-Asterisk-Signature, X-FreeSWITCH-Signature, Telnyx-Signature-ed25519
\* with Telnyx-Timestamp) or its Basic credentials (Bandwidth): nothing, the
\* right value, a wrong but well-formed value, or a value with characters
\* outside ASCII.
Creds == {"missing", "valid", "wrong", "nonascii"}

\* The validation function of each adapter: "true", "false", or the
\* exception that leaves it.
\*   Asterisk, FreeSWITCH : hmac.compare_digest(signature, expected) on two
\*       str raises TypeError when the signature has non-ASCII characters
\*   Telnyx   : base64.b64decode raises on a non-ASCII signature (caught,
\*       False); with the cryptography package missing the ImportError
\*       branch returns True for any decodable signature
\*   Bandwidth: secrets.compare_digest on the encoded bytes
\*   Twilio   : RequestValidator.validate
validate_request(platform, validate, secret, cred, crypto) ==
    IF ~validate \/ ~secret
    THEN "true"
    ELSE CASE platform \in {"asterisk", "freeswitch"} ->
                 (CASE cred = "missing"  -> "false"
                    [] cred = "valid"    -> "true"
                    [] cred = "wrong"    -> "false"
                    [] cred = "nonascii" -> "TypeError")
           [] platform = "telnyx" ->
                 (CASE cred = "missing"  -> "false"
                    [] cred = "nonascii" -> "false"
                    [] cred = "valid"    -> "true"
                    [] cred = "wrong"    -> IF crypto THEN "false" ELSE "true")
           [] OTHER -> IF cred = "valid" THEN "true" ELSE "false"

\* The start of the webhook handler up to the point where the payload is
\* parsed: the framework's own checks of the declared parameters (Twilio's
\* required RecordingSid form field gives 422, an undecodable Basic header
\* gives 401), then the validation function: False raises HTTPException
\* (403, 401 for Bandwidth), an exception leaving it is answered 500.
gate(platform, validate, secret, cred, crypto, hasId) ==
    LET v == validate_request(platform, validate, secret, cred, crypto)
    IN  CASE platform = "twilio" /\ ~hasId            -> [resp |-> "422", proceeds |-> FALSE]
          [] platform = "bandwidth" /\ cred = "nonascii" -> [resp |-> "401", proceeds |-> FALSE]
          [] v = "true"  -> [resp |-> "none", proceeds |-> TRUE]
          [] v = "false" -> [resp |-> IF platform = "bandwidth" THEN "401" ELSE "403",
                             proceeds |-> FALSE]
          [] OTHER       -> [resp |-> "500", proceeds |-> FALSE]

\* A loaded configuration (Twilio never loads with validation on and no
\* token), a request, and whether the cryptography package can be imported.
GateArgs ==
    {a \in [fn : {"gate"}, platform : Platforms, validate : BOOLEAN, secret : BOOLEAN,
            cred : Creds, crypto : BOOLEAN, hasId : BOOLEAN] :
        ~(a.platform = "twilio" /\ a.validate /\ ~a.secret)}

InitGate == IdleProcess /\ arg \in GateArgs /\ out = NoOut

ApplyGate ==
    /\ arg.fn = "gate"
    /\ out = NoOut
    /\ LET g == gate(arg.platform, arg.validate, arg.secret, arg.cred, arg.crypto, arg.hasId)
       IN  out' = [fn |-> "gate", resp |-> g.resp, proceeds |-> g.proceeds]
    /\ UNCHANGED <<pipeline, arg>>

SpecGate == InitGate /\ [][ApplyGate]_vars

\* ---- the payload parsers
\* What a key of the JSON payload can hold:
\*   absent     the key is not in the payload
\*   null       JSON null
\*   empty      the empty string
\*   text       a string in the form the parser expects for the key
\*   junk       a string that is not in that form
\*   hugetext   a string of digits beyond the range of a timestamp
\*   number     a non-zero JSON number within the range of a timestamp
\*   hugenumber a JSON number beyond that range
\*   list       a non-empty JSON array or object
JsonVals ==
    {"absent", "null", "empty", "text", "junk", "hugetext", "number", "hugenumber", "list"}

Strings == {"empty", "text", "junk", "hugetext"}

\* Twilio posts a form: every field that is present is a string.
FormVals == {"absent"} \cup Strings

Exceptions == {"AttributeError", "TypeError", "OverflowError"}

\* dict.get(key, default): the default only replaces a key that is absent.
dict_get(v, default) == IF v = "absent" THEN default ELSE v

\* dict.get(key): None for an absent key.
dict_get_none(v) == dict_get(v, "null")

\* bool(v) as "if v:" takes it.
bool(v) == v \notin {"absent", "null", "empty"}

\* v.lower(), and likewise v.replace(...): a method of str only.
str_lower(v) == IF v \in Strings THEN v ELSE "AttributeError"

\* <Platform>RecordingData.direction, d the direction key and d2 the key
\* consulted after it (Asterisk: context, FreeSWITCH: Caller-Direction).
direction(platform, d, d2) ==
    CASE platform = "twilio" -> dict_get(d, "empty")
      [] platform = "asterisk" ->
             IF bool(dict_get(d, "empty"))
             THEN str_lower(d)
             ELSE IF str_lower(dict_get(d2, "empty")) = "AttributeError"
                  THEN "AttributeError" ELSE "inferred"
      [] platform = "freeswitch" -> str_lower(dict_get(d, dict_get(d2, "text")))
      [] platform = "telnyx" -> IF d \in {"absent", "text"} THEN "text" ELSE str_lower(d)
      [] OTHER -> str_lower(dict_get(d, "text"))

\* float(v) / int(v) guarded by except (ValueError, TypeError).
to_number(v) == IF v \in {"text", "hugetext", "number", "hugenumber"} THEN "value" ELSE "None"

\* <Platform>RecordingData.duration_seconds.  Bandwidth hands the value to
\* re.match inside except (ValueError, AttributeError).
duration_seconds(platform, v) ==
    CASE platform = "twilio" -> IF bool(v) THEN to_number(v) ELSE "None"
      [] platform = "bandwidth" ->
             IF ~bool(dict_get(v, "empty")) THEN "None"
             ELSE IF v \notin Strings THEN "TypeError"
             ELSE IF v = "text" THEN "value" ELSE "None"
      [] OTHER -> IF dict_get_none(v) # "null" THEN to_number(v) ELSE "None"

\* datetime.fromisoformat(v.replace("Z", "+00:00")) inside
\* except (ValueError, AttributeError): "pass" when the except clause is taken.
from_iso(v) == IF v = "text" THEN "value" ELSE "pass"

\* datetime.fromtimestamp(float(v)) or (int(v)) inside
\* except (ValueError, TypeError).
from_epoch(v) ==
    CASE v \in {"text", "number"}          -> "value"
      [] v \in {"hugetext", "hugenumber"} -> "OverflowError"
      [] OTHER                             -> "pass"

\* One attempt of start_time: skipped for a falsy value.
try_time(parse, v) == IF bool(v) THEN parse ELSE "pass"

\* <Platform>RecordingData.start_time, t1 and t2 the keys in the order the
\* parser consults them: Asterisk timestamp (ISO) then start_time (epoch),
\* FreeSWITCH start_epoch (epoch) then start_time (ISO), Telnyx start_time
\* then occurred_at (both ISO), Bandwidth startTime (ISO), Twilio
\* RecordingStartTime (RFC 2822, inside except Exception).
start_time(platform, t1, t2) ==
    LET first  == CASE platform = "twilio"     -> try_time(IF t1 = "text" THEN "value" ELSE "pass", t1)
                    [] platform = "freeswitch" -> try_time(from_epoch(t1), t1)
                    [] OTHER                   -> try_time(from_iso(t1), t1)
        second == CASE platform = "asterisk"   -> try_time(from_epoch(t2), t2)
                    [] platform \in {"freeswitch", "telnyx"} -> try_time(from_iso(t2), t2)
                    [] OTHER                   -> "pass"
    IN  IF first # "pass" THEN first
        ELSE IF second # "pass" THEN second
        ELSE "now"

\* An event as the parser sees it: Twilio's fields are form strings, and the
\* parsers that read one key only leave the second one absent.
ParseArgs ==
    {a \in [fn : {"parse"}, platform : Platforms, d : JsonVals, d2 : JsonVals,
            duration : JsonVals, t1 : JsonVals, t2 : JsonVals] :
        /\ a.platform = "twilio" =>
              /\ {a.d, a.duration, a.t1} \subseteq FormVals
              /\ a.d2 = "absent" /\ a.t2 = "absent"
        /\ a.platform \in {"telnyx", "bandwidth"} => a.d2 = "absent"
        /\ a.platform = "bandwidth" => a.t2 = "absent"}

InitParse == IdleProcess /\ arg \in ParseArgs /\ out = NoOut

\* builder.build(recording_data) reading start_time, direction and
\* duration_seconds of the parsed event; an exception leaving one of them is
\* caught by build, which returns None.
ApplyParse ==
    /\ arg.fn = "parse"
    /\ out = NoOut
    /\ LET dir    == direction(arg.platform, arg.d, arg.d2)
           dur    == duration_seconds(arg.platform, arg.duration)
           start  == start_time(arg.platform, arg.t1, arg.t2)
           raised == {dir, dur, start} \cap Exceptions # {}
           v      == build([platform |-> arg.platform, download |-> FALSE, ari_url |-> FALSE,
                            url_base |-> FALSE, format |-> "wav"],
                           "none", FALSE, [s \in DOMAIN CHOOSE o \in OutcomeOf : TRUE |-> "ok"],
                           raised, 1)
       IN  out' = [fn |-> "parse", direction |-> dir, duration_seconds |-> dur,
                   start_time |-> start, built |-> v.built]
    /\ UNCHANGED <<pipeline, arg>>

SpecParse == InitParse /\ [][ApplyParse]_vars

\* ---- identifiers of the parsed event
Fields == {"recording_id", "from_number", "to_number"}

\* The keys a parser reads for a field, primary key first.
KeysOf(platform, field) ==
    CASE platform = "asterisk" ->
             (CASE field = "recording_id" -> <<"recording_name", "name", "Uniqueid">>
                [] field = "from_number" -> <<"caller_id_num", "CallerIDNum">>
                [] OTHER -> <<"connected_line_num", "ConnectedLineNum", "extension">>)
      [] platform = "freeswitch" ->
             (CASE field = "recording_id" -> <<"uuid", "call_uuid">>
                [] field = "from_number" -> <<"caller_id_number", "Caller-Caller-ID-Number">>
                [] OTHER -> <<"destination_number", "Caller-Destination-Number">>)
      [] platform = "telnyx" ->
             (CASE field = "recording_id" -> <<"recording_id", "call_control_id">>
                [] field = "from_number" -> <<"from">>
                [] OTHER -> <<"to">>)
      [] platform = "bandwidth" ->
             (CASE field = "recording_id" -> <<"recordingId">>
                [] field = "from_number" -> <<"from">>
                [] OTHER -> <<"to">>)
      [] OTHER ->
             (CASE field = "recording_id" -> <<"RecordingSid">>
                [] field = "from_number" -> <<"From">>
                [] OTHER -> <<"To">>)

\* The longest chain of keys (Asterisk's recording_id and to_number).
MaxKeys == 3

\* What a key holds for an identifier: "value" is a non-empty string.
IdVals == {"absent", "null", "empty", "value"}

\* data.get(k1, data.get(k2, data.get(k3, ""))) over the keys from position i.
RECURSIVE chain_get(_, _, _)
chain_get(k, i, n) == IF i > n THEN "empty" ELSE dict_get(k[i], chain_get(k, i + 1, n))

\* <Platform>RecordingData.recording_id / from_number / to_number.
identifier(platform, field, k) == chain_get(k, 1, Len(KeysOf(platform, field)))

\* A payload reduced to the keys of one field; Twilio's are form strings.
IdentArgs ==
    {a \in [fn : {"ident"}, platform : Platforms, field : Fields,
            k : [1..MaxKeys -> IdVals]] :
        /\ \A i \in 1..MaxKeys : i > Len(KeysOf(a.platform, a.field)) => a.k[i] = "absent"
        /\ a.platform = "twilio" => a.k[1] # "null"}

InitIdent == IdleProcess /\ arg \in IdentArgs /\ out = NoOut

ApplyIdent ==
    /\ arg.fn = "ident"
    /\ out = NoOut
    /\ out' = [fn |-> "ident", value |-> identifier(arg.platform, arg.field, arg.k)]
    /\ UNCHANGED <<pipeline, arg>>

SpecIdent == InitIdent /\ [][ApplyIdent]_vars

\* ---- Bandwidth's duration
\* A duration string is a sequence of tokens: a maximal run of digits is one
\* token (so no two digit tokens are adjacent), every other character is a
\* token of its own, "x" standing for any character the pattern has no use for.
Digits == {"1", "30", "45"}

Letters == {"P", "T", "H", "M", "S", ".", "x"}

\* int("30")
NumVal(t) == CASE t = "1" -> 1 [] t = "30" -> 30 [] OTHER -> 45

MaxTokens == 4

TokenSeqs(n) ==
    {s \in [1..n -> Digits \cup Letters] :
        \A i \in 1..(n - 1) : ~(s[i] \in Digits /\ s[i + 1] \in Digits)}

\* The strings of the tests and some longer ones, next to every short string.
DurationStrings ==
    UNION {TokenSeqs(n) : n \in 0..MaxTokens}
    \cup {<<"P", "T", "1", "M", "30", "S">>,
          <<"P", "T", "1", "H", "30", "M", "45", "S">>,
          <<"P", "T", "1", "H", "30", "S">>,
          <<"P", "T", "30", "S", "x">>,
          <<"P", "T", "1", ".", "30", "S">>,
          <<"P", "T", "1", "M", "1", "H">>,
          <<"P", "1", "x", "T", "1", "H">>}

\* The value of the "duration" key: absent, null, a JSON number or a string.
DurationInputs ==
    {[kind |-> k, s |-> <<>>] : k \in {"absent", "null", "number"}}
    \cup {[kind |-> "str", s |-> s] : s \in DurationStrings}

NoDuration == [kind |-> "None", seconds |-> 0, fraction |-> "0"]

\* re.match(r"PT(?:(\d+)H)?(?:(\d+)M)?(?:(\d+(?:\.\d+)?)S)?", s) followed by
\* hours * 3600 + minutes * 60 + seconds over the groups, a group that did not
\* take part counting as 0.  The match is anchored at the start only, and
\* every group is optional.
iso_duration(s) ==
    IF Len(s) < 2 \/ s[1] # "P" \/ s[2] # "T"
    THEN NoDuration
    ELSE LET group(i, letter) == i + 1 <= Len(s) /\ s[i] \in Digits /\ s[i + 1] = letter
             i1       == IF group(3, "H") THEN 5 ELSE 3
             i2       == IF group(i1, "M") THEN i1 + 2 ELSE i1
             hours    == IF group(3, "H") THEN NumVal(s[3]) ELSE 0
             minutes  == IF group(i1, "M") THEN NumVal(s[i1]) ELSE 0
             decimal  == /\ i2 + 3 <= Len(s)
                         /\ s[i2] \in Digits /\ s[i2 + 1] = "."
                         /\ s[i2 + 2] \in Digits /\ s[i2 + 3] = "S"
             seconds  == IF group(i2, "S") \/ decimal THEN NumVal(s[i2]) ELSE 0
         IN  [kind |-> "float", seconds |-> hours * 3600 + minutes * 60 + seconds,
              fraction |-> IF decimal THEN s[i2 + 2] ELSE "0"]

\* BandwidthRecordingData.duration_seconds on the value of the key; a value
\* that is not a string makes re.match raise TypeError, which the except
\* clause (ValueError, AttributeError) lets through.
bandwidth_duration(v) ==
    CASE v.kind \in {"absent", "null"} -> NoDuration
      [] v.kind = "number"             -> [NoDuration EXCEPT !.kind = "TypeError"]
      [] v.s = <<>>                    -> NoDuration
      [] OTHER                         -> iso_duration(v.s)

InitDuration == IdleProcess /\ arg \in [fn : {"duration"}, v : DurationInputs] /\ out = NoOut

ApplyDuration ==
    /\ arg.fn = "duration"
    /\ out = NoOut
    /\ out' = [fn |-> "duration", value |-> bandwidth_duration(arg.v)]
    /\ UNCHANGED <<pipeline, arg>>

SpecDuration == InitDuration /\ [][ApplyDuration]_vars

\* ---- direction strings
\* A direction or context string is a sequence of pieces, each a word of the
\* list below written all in lower case ("lower") or with at least one capital
\* letter ("upper"); "x" stands for any other text.  No word of the list can
\* be put together from other pieces, so one string has one sequence.
Words == {"outbound", "outgoing", "inbound", "incoming", "-api", "from-internal", "x"}

Cases == {"lower", "upper"}

MaxWords == 2

Pieces == [w : Words, c : Cases]

Texts == UNION {[1..n -> Pieces] : n \in 0..MaxWords}

\* The string literal made of the given words, in lower case as in the source.
Literal(ws) == [i \in DOMAIN ws |-> [w |-> ws[i], c |-> "lower"]]

\* s.lower()
to_lower(s) == [i \in DOMAIN s |-> [s[i] EXCEPT !.c = "lower"]]

\* ("outbound", "outbound-api", "outgoing")
OutboundFamily == {Literal(<<"outbound">>), Literal(<<"outbound", "-api">>), Literal(<<"outgoing">>)}

\* Mutant of _determine_originator: the direction is compared as it is.
_determine_originator_exact(d) == IF d \in OutboundFamily THEN 0 ELSE 1

\* BaseVconBuilder._determine_originator
_determine_originator(d) == IF to_lower(d) \in OutboundFamily THEN 0 ELSE 1

InitOriginator == IdleProcess /\ arg \in [fn : {"originator"}, direction : Texts] /\ out = NoOut

ApplyOriginator ==
    /\ arg.fn = "originator"
    /\ out = NoOut
    /\ out' = [fn |-> "originator", originator |-> _determine_originator(arg.direction)]
    /\ UNCHANGED <<pipeline, arg>>

SpecOriginator == InitOriginator /\ [][ApplyOriginator]_vars

\* ---- platform tags
\* The tag that carries recording_id.
IdTag(platform) ==
    CASE platform = "twilio"     -> "recording_sid"
      [] platform = "asterisk"   -> "asterisk_recording_name"
      [] platform = "freeswitch" -> "freeswitch_uuid"
      [] platform = "telnyx"     -> "telnyx_recording_id"
      [] OTHER                   -> "bandwidth_recording_id"

\* <<tag, key>> of the tags platform_tags sets whatever the key holds:
\* Twilio's call_sid and account_sid, read with .get(key, "").
AlwaysTags(platform) ==
    IF platform = "twilio"
    THEN {<<"call_sid", "CallSid">>, <<"account_sid", "AccountSid">>}
    ELSE {}

\* <<tag, key>> of the tags set under "if <value of key>:".
OptionalTags(platform) ==
    CASE platform = "twilio" ->
             {<<"direction", "Direction">>, <<"recording_source", "RecordingSource">>,
              <<"duration_seconds", "RecordingDuration">>,
              <<"caller_city", "CallerCity">>, <<"caller_state", "CallerState">>,
              <<"caller_country", "CallerCountry">>, <<"called_city", "CalledCity">>,
              <<"called_state", "CalledState">>, <<"called_country", "CalledCountry">>}
      [] platform = "asterisk" ->
             {<<"asterisk_channel_id", "channel_id">>, <<"asterisk_unique_id", "Uniqueid">>,
              <<"caller_name", "caller_id_name">>, <<"asterisk_context", "context">>,
              <<"asterisk_application", "application">>}
      [] platform = "freeswitch" ->
             {<<"caller_name", "caller_id_name">>, <<"account_code", "accountcode">>,
              <<"freeswitch_context", "context">>, <<"sip_user_agent", "sip_user_agent">>}
      [] platform = "telnyx" ->
             {<<"telnyx_call_session_id", "call_session_id">>,
              <<"telnyx_call_control_id", "call_control_id">>,
              <<"telnyx_connection_id", "connection_id">>,
              <<"recording_channels", "channels">>}
      [] OTHER ->
             {<<"bandwidth_call_id", "callId">>, <<"bandwidth_account_id", "accountId">>,
              <<"bandwidth_application_id", "applicationId">>,
              <<"recording_channels", "channels">>, <<"has_transcription", "transcription">>}

\* The keys of the payload platform_tags reads.
TagKeys(platform) ==
    {KeysOf(platform, "recording_id")[i] : i \in 1..Len(KeysOf(platform, "recording_id"))}
    \cup {e[2] : e \in AlwaysTags(platform) \cup OptionalTags(platform)}

\* recording_id of a payload p (a function from keys to what they hold).
recording_id(platform, p) ==
    LET keys == KeysOf(platform, "recording_id")
    IN  identifier(platform, "recording_id",
                   [i \in 1..MaxKeys |-> IF i <= Len(keys) THEN p[keys[i]] ELSE "absent"])

\* <Platform>RecordingData.platform_tags as a set of <<tag, value>>.
platform_tags(platform, p) ==
    {<<IdTag(platform), recording_id(platform, p)>>}
    \cup {<<e[1], dict_get(p[e[2]], "empty")>> : e \in AlwaysTags(platform)}
    \cup {<<e[1], p[e[2]]>> : e \in {x \in OptionalTags(platform) : bool(p[x[2]])}}

\* Payloads in which at most two of the keys are present.
TagPayloads(platform) ==
    {[f \in TagKeys(platform) |-> IF f = f1 THEN v1 ELSE IF f = f2 THEN v2 ELSE "absent"] :
        f1 \in TagKeys(platform), f2 \in TagKeys(platform), v1 \in IdVals, v2 \in IdVals}

TagArgs ==
    UNION {{[fn |-> "tags", platform |-> pl, p |-> p] : p \in TagPayloads(pl)} : pl \in Platforms}

InitTags == IdleProcess /\ arg \in TagArgs /\ out = NoOut

ApplyTags ==
    /\ arg.fn = "tags"
    /\ out = NoOut
    /\ out' = [fn |-> "tags", tags |-> platform_tags(arg.platform, arg.p)]
    /\ UNCHANGED <<pipeline, arg>>

SpecTags == InitTags /\ [][ApplyTags]_vars

\* ---- the record build returns
\* ADAPTER_SOURCE of the platform's builder class.
ADAPTER_SOURCE(platform) ==
    CASE platform = "twilio"     -> "twilio_adapter"
      [] platform = "asterisk"   -> "asterisk_adapter"
      [] platform = "freeswitch" -> "freeswitch_adapter"
      [] platform = "telnyx"     -> "telnyx_adapter"
      [] OTHER                   -> "bandwidth_adapter"

\* Phone numbers of the payload ("" for a missing one).
FromNumbers == {"", "+15551234567"}

ToNumbers == {"", "+15559876543"}

MaxRecords == 2

\* Mutant of add_parties: the callee is added before the caller.
add_parties_callee_first(from, to) == <<[tel |-> to], [tel |-> from]>>

\* vcon.add_party(Party(tel=from_number)); vcon.add_party(Party(tel=to_number))
add_parties(from, to) == <<[tel |-> from], [tel |-> to]>>

\* The parts of the record build puts together for an event whose payload
\* holds the recording id under its primary key and the two numbers: the
\* parties, the single dialog (type and party references), and the tags, the
\* source tag first and the platform tags after it.
vcon_record(platform, from, to, uuid) ==
    LET p == [f \in TagKeys(platform) |->
                 IF f = KeysOf(platform, "recording_id")[1] THEN "value" ELSE "absent"]
    IN  [uuid    |-> uuid,
         parties |-> add_parties(from, to),
         dialog  |-> <<[type |-> "recording", parties |-> <<0, 1>>]>>,
         tags    |-> {<<"source", ADAPTER_SOURCE(platform)>>} \cup platform_tags(platform, p)]

\* One call of build: the platform of the builder, the numbers of the event,
\* and whether an exception is raised before build returns.
ShapeArgs ==
    [fn : {"record"}, platform : Platforms, from : FromNumbers, to : ToNumbers,
     raised : BOOLEAN]

\* The records build has returned so far, each with the input it was built
\* from; nextUuid is the uuid Vcon.build_new() hands out next.
InitShape ==
    IdleProcess /\ arg = NoArg /\ out = [fn |-> "records", returned |-> <<>>, nextUuid |-> 1]

\* builder.build(recording_data): Vcon.build_new() comes first and takes a
\* fresh uuid; None is returned when something raised.
BuildRecord ==
    /\ out.fn = "records"
    /\ out.nextUuid <= MaxRecords
    /\ \E a \in ShapeArgs :
          /\ arg' = a
          /\ out' = [out EXCEPT
                       !.nextUuid = @ + 1,
                       !.returned =
                           IF a.raised THEN @
                           ELSE Append(@, [input |-> a,
                                           vcon  |-> vcon_record(a.platform, a.from, a.to,
                                                                 out.nextUuid)])]
    /\ UNCHANGED pipeline

SpecShape == InitShape /\ [][BuildRecord]_vars

\* ---- Asterisk's direction
\* What the "direction" or "context" key holds: absent, null, a non-zero JSON
\* number, or a string.
TextValues(texts) ==
    {[kind |-> k, s |-> <<>>] : k \in {"absent", "null", "number"}}
    \cup {[kind |-> "str", s |-> s] : s \in texts}

\* bool(v) of such a value: a string is truthy unless empty.
truthy(v) == v.kind = "number" \/ (v.kind = "str" /\ v.s # <<>>)

\* word in s, for a word of the list.
contains(s, word) == \E i \in 1..Len(s) : s[i] = [w |-> word, c |-> "lower"]

AttributeError == [kind |-> "AttributeError", s |-> <<>>]

\* AsteriskRecordingData.direction, d and ctx being what the direction and the
\* context key hold; .get(key, "") gives "" for an absent key only, and
\* .lower() exists for strings only.
asterisk_direction(d, ctx) ==
    IF truthy(d)
    THEN IF d.kind = "str" THEN [kind |-> "str", s |-> to_lower(d.s)] ELSE AttributeError
    ELSE IF ctx.kind \in {"null", "number"}
         THEN AttributeError
         ELSE LET context == IF ctx.kind = "absent" THEN <<>> ELSE ctx.s
              IN  IF contains(to_lower(context), "outbound")
                     \/ contains(to_lower(context), "from-internal")
                  THEN [kind |-> "str", s |-> Literal(<<"outbound">>)]
                  ELSE [kind |-> "str", s |-> Literal(<<"inbound">>)]

\* Directions of one piece at most, contexts of up to MaxWords pieces.
InitDirection ==
    /\ IdleProcess
    /\ arg \in [fn : {"direction"},
                d : TextValues({s \in Texts : Len(s) <= 1}),
                ctx : TextValues(Texts)]
    /\ out = NoOut

ApplyDirection ==
    /\ arg.fn = "direction"
    /\ out = NoOut
    /\ out' = [fn |-> "direction", value |-> asterisk_direction(arg.d, arg.ctx)]
    /\ UNCHANGED <<pipeline, arg>>

SpecDirection == InitDirection /\ [][ApplyDirection]_vars

\* ---- tracker instances over one state file
\* StateTracker instances that were given the same path (one per process
\* started on it).
NumTrackers == 2

Trackers == 1..NumTrackers

\* What a handler passes to mark_processed: the record's uuid ("" after a
\* failed build) and the status.
MarkInputs ==
    {[vcon_uuid |-> 0, status |-> "build_failed"],
     [vcon_uuid |-> 1, status |-> "success"],
     [vcon_uuid |-> 1, status |-> "post_failed"]}

\* Mutant of mark_processed: the file is read again before the entry is set.
mark_processed_rereading(st, f, id, m, sv) ==
    LET after == StoreAfterMark(Load(f), id, m.vcon_uuid, m.status, 0)
    IN  [state |-> after, file |-> FileAfterSave(f, after, sv)]

\* StateTracker.mark_processed on a dict state: the entry is set in
\* self.state, as loaded when the instance was constructed and changed by its
\* own calls since, and _save writes self.state over the file.
mark_processed(st, f, id, m, sv) ==
    LET after == StoreAfterMark(st, id, m.vcon_uuid, m.status, 0)
    IN  [state |-> after, file |-> FileAfterSave(f, after, sv)]

\* The file and self.state of each instance; every instance has been
\* constructed on the file as it was at the start.
InitTrackers ==
    /\ IdleProcess
    /\ arg = NoArg
    /\ \E f \in InitFiles :
          out = [fn |-> "trackers", file |-> f, state |-> [t \in Trackers |-> Load(f)]]

\* StateTracker(state_file): an instance is constructed anew (its process
\* was started again).
TrackerInit(t) ==
    /\ out.fn = "trackers"
    /\ arg' = [fn |-> "init", t |-> t]
    /\ out' = [out EXCEPT !.state[t] = Load(out.file)]
    /\ UNCHANGED pipeline

\* tracker.mark_processed(recording_id, vcon_uuid, status) on instance t;
\* TypeError leaves it right away when self.state is a list.
TrackerMark(t, id, m, sv) ==
    /\ out.fn = "trackers"
    /\ arg' = [fn |-> "mark", t |-> t, id |-> id, sv |-> sv,
               raised |-> MarkRaises(out.state[t])]
    /\ IF MarkRaises(out.state[t])
       THEN out' = out
       ELSE LET r == mark_processed(out.state[t], out.file, id, m, sv)
            IN  out' = [out EXCEPT !.state[t] = r.state, !.file = r.file]
    /\ UNCHANGED pipeline

NextTrackers ==
    \/ \E t \in Trackers : TrackerInit(t)
    \/ \E t \in Trackers, id \in Ids, m \in MarkInputs, sv \in SaveOutcomes :
          TrackerMark(t, id, m, sv)

SpecTrackers == InitTrackers /\ [][NextTrackers]_vars

\* ------------------------------------------------------------------ claims
HasEntry(id) == state.kind = "dict" /\ state.store[id] # NoEntry

InFile(id) == file.kind = "object" /\ file.store[id] # NoEntry

\* The handler is between its is_processed check and its return.
InPipeline(h) == pc[h] \in {"build", "post", "mark"}

FinalStatuses == {"success", "build_failed", "post_failed"}

\* C1 (as claimed): within one process, once a qualifying event for a
\* recording id has been handled, nothing that follows sends a POST for that
\* id or changes its tracker entry, and a later event for it is answered OK.
C1_Idempotent ==
    [][restarts' = restarts =>
         \A id \in handled :
            /\ posts'[id] = posts[id]
            /\ state'.store[id] = state.store[id]
            /\ (last' # last /\ last'.kind = "event" /\ last'.id = id) => last'.resp = "OK"]_vars

\* C2 (as claimed): once a recording id has a tracker entry, no later step
\* builds or posts for it, and its stored status and record id never change.
NoRetry(id) ==
    /\ posts'[id] = posts[id]
    /\ \A h \in Handlers : pc'[h] \in {"build", "post"} => req'[h].id # id
    /\ state'.kind = "dict"
    /\ state'.store[id].status = state.store[id].status
    /\ state'.store[id].vcon_uuid = state.store[id].vcon_uuid

C2_NoRetryEver == [][\A id \in Ids : HasEntry(id) => NoRetry(id)]_vars

\* C2 (amended): the entry is permanent for as long as the process runs, and
\* across a restart when it is in the state file the new tracker loads.
C2_NoRetryWhileKnown ==
    [][\A id \in Ids :
          (HasEntry(id) /\ (restarts' = restarts \/ InFile(id))) => NoRetry(id)]_vars

\* A later event for an id stored with a failure status was skipped.
C2_Witness ==
    /\ last.how = "skipped"
    /\ HasEntry(last.id)
    /\ state.store[last.id].status \in {"build_failed", "post_failed"}

\* C3 (as claimed): nothing guards the check-then-act sequence: while one
\* handler is between its is_processed check and its mark_processed call,
\* a waiting handler for the same recording id can run its own check.
C3_CheckUnguarded ==
    \A h1, h2 \in Handlers :
        (/\ h1 # h2
         /\ InPipeline(h1)
         /\ pc[h2] = "await"
         /\ req[h2] = req[h1]) => ENABLED Check(h2)

\* C3 (amended): two handlers are never both between check and return; a
\* handler in the pipeline is the one the event loop is running.
C3_NoOverlap ==
    \A h1, h2 \in Handlers :
        (InPipeline(h1) /\ InPipeline(h2)) => (h1 = h2 /\ running = h1)

\* One handler has posted and not yet marked while a second request for the
\* same recording id is waiting.
C3_Witness ==
    \E h1, h2 \in Handlers :
        /\ h1 # h2
        /\ pc[h1] = "mark"
        /\ vcon[h1].built
        /\ pc[h2] = "await"
        /\ req[h2] = req[h1]

\* C4 (as claimed): every authenticated, parseable event is answered OK.
C4_AlwaysAcknowledged ==
    last.kind \in {"event", "filtered"} => last.resp = "OK"

\* C5: when a handler returns from processing a new recording id, the entry
\* it stored is build_failed with an empty record id iff build returned
\* nothing, success with the record's id iff the POST succeeded, post_failed
\* with the record's id iff the record was built and the POST failed; no
\* other status is ever stored.
C5_OutcomeToStatus ==
    [][/\ \A h \in Handlers :
            (pc[h] = "mark" /\ last' # last /\ last'.how = "processed") =>
                LET e == state'.store[req[h].id]
                    v == vcon[h]
                IN  /\ (e.status = "build_failed" /\ e.vcon_uuid = 0) <=> ~v.built
                    /\ (e.status = "success" /\ e.vcon_uuid = v.uuid) <=> (v.built /\ success[h])
                    /\ (e.status = "post_failed" /\ e.vcon_uuid = v.uuid) <=> (v.built /\ ~success[h])
       /\ \A id \in Ids : HasEntry(id)' => state'.store[id].status \in FinalStatuses]_vars

\* A handler has returned after a failed POST and the entry says so.
C5_Witness ==
    /\ last.how = "processed"
    /\ HasEntry(last.id)
    /\ state.store[last.id].status = "post_failed"
    /\ state.store[last.id].vcon_uuid > 0

\* The answers of a fresh tracker constructed on the state file agree with
\* those of the running tracker.
SameAnswers(fresh, st) ==
    \A id \in Ids :
        /\ is_processed(fresh, id) = is_processed(st, id)
        /\ get_vcon_uuid(fresh, id) = get_vcon_uuid(st, id)
        /\ get_processing_status(fresh, id) = get_processing_status(st, id)

\* C6 (as claimed): after any sequence of mark_processed calls a fresh tracker
\* on the same file gives the same answers as the writing one.
C6_RoundTrip == SameAnswers(Load(file), state)

\* C6 (amended): it does whenever the latest mark_processed managed to write
\* the file.
C6_RoundTripAfterWrite == lastSave = "ok" => SameAnswers(Load(file), state)

\* Two entries were marked and the latest write succeeded.
C6_Witness ==
    /\ lastSave = "ok"
    /\ state.kind = "dict"
    /\ Keys(state.store) = Ids
    /\ \E id \in Ids : state.store[id].status # "success"

\* C7 (as claimed): after every mark_processed the state file holds exactly
\* the in-memory entries, and is_processed(id) is true iff id is a key of the
\* persisted store.
C7_FileIsTruth ==
    lastSave # "none" =>
        /\ file.kind = "object"
        /\ file.store = state.store
        /\ \A id \in Ids : is_processed(state, id) <=> InFile(id)

\* C7 (amended): both hold after a mark_processed whose write succeeded.
C7_FileIsTruthAfterWrite ==
    lastSave = "ok" =>
        /\ file.kind = "object"
        /\ file.store = state.store
        /\ \A id \in Ids : is_processed(state, id) <=> InFile(id)

\* Two events were marked in one run and the latest write succeeded: the
\* file holds both entries.
C7_Witness ==
    /\ lastSave = "ok"
    /\ file.kind = "object"
    /\ Cardinality(Keys(file.store)) = 2
    /\ restarts = 0
    /\ \E id \in Ids : file.store[id].timestamp = 1

\* C8 (as claimed): once a handler ran to completion for a recording id, no
\* POST is sent for that id again, restarts included.
C8_NoRepostAfterCompletion ==
    [][\A id \in completed : posts'[id] = posts[id]]_vars

\* C8 (amended): no POST is sent for an id whose entry is in the running
\* tracker or in the state file.
C8_NoRepostWhilePersisted ==
    [][\A id \in Ids :
          ((HasEntry(id) /\ restarts' = restarts) \/ InFile(id)) => posts'[id] = posts[id]]_vars

\* After a restart a redelivered event for a completed id was skipped.
C8_Witness ==
    /\ restarts > 0
    /\ last.how = "skipped"
    /\ last.id \in completed
    /\ posts[last.id] = 1

\* C9 (as claimed): a tracker over a file that is not a stored object behaves
\* as an empty store: nothing is processed before the first mark_processed,
\* and mark_processed never raises.
C9_StartupTolerant ==
    /\ file.kind # "object" => state.kind = "dict"
    /\ (file.kind # "object" /\ lastSave = "none") =>
            \A id \in Ids : ~is_processed(state, id)
    /\ last.how # "raised"

\* C10 (as claimed): when the fetcher is invoked and obtains no audio,
\* whatever the failure of its strategies, build still returns a record and
\* the record carries a URL reference.
C10_FetchFailureNonFatal ==
    \A h \in Handlers :
        (vcon[h].fetch \in {"failed", "raised"} /\ ~vcon[h].err) =>
            (vcon[h].built /\ vcon[h].audio = "url")

\* C11: the dialog of a built record never carries both embedded audio and a
\* URL reference; it carries embedded audio (body, base64 encoding, filename
\* {recording_id}.{format}) only when downloading is enabled, a location
\* exists and the fetch succeeded; it carries url = {location}.{format} and
\* no embedded audio when a location exists and downloading is disabled (the
\* fetcher is then not invoked) or the fetch failed; it carries neither when
\* no location exists.
C11_AudioPolicy ==
    (out.fn = "build" /\ out.vcon.built) =>
        LET d        == out.dialog
            embedded == d.body # Absent
            fmt      == arg.c.format
        IN  /\ ~(embedded /\ d.url # Absent)
            /\ embedded =>
                  /\ arg.c.download /\ arg.loc # "none" /\ out.fetched = "bytes"
                  /\ d.body = <<"base64", arg.id>>
                  /\ d.encoding = "base64"
                  /\ d.filename = <<arg.id, ".", fmt>>
            /\ ~embedded => (d.encoding = Absent /\ d.filename = Absent)
            /\ ~arg.c.download => out.vcon.fetch = "not_invoked"
            /\ (arg.loc # "none" /\ (~arg.c.download \/ out.fetched = "none")) =>
                  (d.url = <<arg.loc, ".", fmt>> /\ ~embedded)
            /\ arg.loc = "none" => (~embedded /\ d.url = Absent)

\* The configuration errors C12 names, read off the environment.
MissingEndpoint == ~Truthy(arg.env.conserver_url)

BadFormat == lower(getenv(arg.env.format, "wav")) \notin {"wav", "mp3"}

ValidationWithoutSecret ==
    ValidationEnabled(arg.platform, arg.env) /\ ~Truthy(arg.env.secret)

\* C12 (as claimed): for every adapter a missing endpoint URL, a recording
\* format other than wav or mp3, or validation enabled without its secret
\* makes the process exit at startup without serving.
C12_ConfigErrorsFatal ==
    (out.fn = "startup" /\ (MissingEndpoint \/ BadFormat \/ ValidationWithoutSecret)) =>
        (out.exited /\ ~out.serving)

\* C12 (amended): a missing endpoint URL or a bad recording format is fatal
\* for every adapter, validation without its secret only for Twilio; the
\* other adapters, given an otherwise valid environment, start and serve
\* with validation enabled and no secret.
C12_ConfigErrorsFatalTwilioSecret ==
    out.fn = "startup" =>
        /\ (MissingEndpoint \/ BadFormat) => (out.exited /\ ~out.serving)
        /\ (arg.platform = "twilio" /\ ValidationWithoutSecret) => (out.exited /\ ~out.serving)
        /\ (/\ arg.platform # "twilio"
            /\ ~MissingEndpoint
            /\ ~BadFormat
            /\ arg.env.port # "text") =>
                (/\ out.serving
                 /\ ~out.exited
                 /\ out.config.validate = ValidationEnabled(arg.platform, arg.env)
                 /\ out.config.secret = Truthy(arg.env.secret))

\* The Twilio adapter, with everything else in order and validation on by
\* default, exited for want of its auth token.
C12_Witness ==
    /\ out.fn = "startup"
    /\ arg.platform = "twilio"
    /\ arg.env.conserver_url = "set"
    /\ arg.env.format = "WAV"
    /\ arg.env.port = "8080"
    /\ arg.env.validate = "unset"
    /\ arg.env.secret = "empty"
    /\ out.exited

\* C13 (as claimed): with validation enabled and its secret configured, a
\* request whose signature or credentials are missing or invalid is answered
\* 403 (401 by Bandwidth) and the handler goes no further: no payload is
\* parsed, nothing is built or posted, the tracker is not touched.
C13_AuthGate ==
    (out.fn = "gate" /\ arg.validate /\ arg.secret /\ arg.cred # "valid") =>
        /\ out.resp = IF arg.platform = "bandwidth" THEN "401" ELSE "403"
        /\ ~out.proceeds

\* The step in which the handler of a filtered request returns.
FilteredReturn(h) ==
    /\ pc[h] = "await"
    /\ req[h].kind \in {"filtered", "noid"}
    /\ pc'[h] = "idle"
    /\ restarts' = restarts

\* A filtered request changes nothing but its own handler: no build is
\* started, no POST is sent, tracker and state file are as before.
LeavesNoTrace(h) ==
    /\ state' = state
    /\ file' = file
    /\ posts' = posts
    /\ nextUuid' = nextUuid
    /\ \A g \in Handlers \ {h} : pc'[g] = pc[g]

\* The step in which a qualifying event for the id of the filtered request
\* answered last is resumed, the id having no tracker entry.
ResumedAfterFiltered(h) ==
    /\ last.how = "filtered"
    /\ req[h] = [id |-> last.id, kind |-> "event"]
    /\ pc[h] = "await"
    /\ pc'[h] # "await"
    /\ restarts' = restarts
    /\ ~is_processed(state, last.id)

\* C14 (as claimed): a filtered event (status or type not accepted, or no
\* recording id) is answered OK, starts no build, sends no POST and adds no
\* tracker entry, and a later qualifying event for the same recording id
\* goes on to be built.
C14_FilteredNoTrace ==
    [][\A h \in Handlers :
          /\ FilteredReturn(h) => (last'.resp = "OK" /\ LeavesNoTrace(h))
          /\ ResumedAfterFiltered(h) => pc'[h] = "build"]_vars

\* C14 (amended): the same, except that the Twilio endpoint answers a
\* request without a recording id 422.
C14_FilteredNoTraceUnprocessable ==
    [][\A h \in Handlers :
          /\ FilteredReturn(h) =>
                /\ LeavesNoTrace(h)
                /\ last'.resp = IF cfg.platform = "twilio" /\ req[h].kind = "noid"
                                 THEN "422" ELSE "OK"
          /\ ResumedAfterFiltered(h) => pc'[h] = "build"]_vars

\* A filtered event for a recording id was answered OK, and the qualifying
\* event for the same id that followed has been built and posted.
C14_Witness ==
    \E h \in Handlers :
        /\ last = [id |-> req[h].id, kind |-> "filtered", resp |-> "OK", how |-> "filtered",
                   body |-> NoBody]
        /\ req[h].kind = "event"
        /\ pc[h] = "mark"
        /\ vcon[h].built
        /\ success[h]
        /\ posts[req[h].id] = 1

\* Another id has an entry recording a build or POST failure.
FailureTrackedBeside(id) ==
    \E a \in Ids \ {id} :
        HasEntry(a) /\ state.store[a].status \in {"build_failed", "post_failed"}

\* C15: while the process runs, an entry of the tracker changes only in the
\* step in which the handler of an event for that very id calls
\* mark_processed - handling an event for A, whatever its outcome, leaves
\* the record id and status of every other id as they were - and with a
\* build or POST failure tracked for A, a new event for another id B is
\* built when resumed and gets its own entry when marked.
C15_Containment ==
    [][restarts' = restarts =>
         /\ state'.kind = state.kind /\ state'.items = state.items
         /\ \A id \in Ids :
               state'.store[id] # state.store[id] =>
                   \E h \in Handlers :
                       /\ pc[h] = "mark" /\ pc'[h] = "idle"
                       /\ req[h] = [id |-> id, kind |-> "event"]
                       /\ \A b \in Ids \ {id} : state'.store[b] = state.store[b]
         /\ \A h \in Handlers :
               (req[h].kind = "event" /\ FailureTrackedBeside(req[h].id)) =>
                   /\ (pc[h] = "await" /\ pc'[h] # "await" /\ ~HasEntry(req[h].id)) =>
                           pc'[h] = "build"
                   /\ (pc[h] = "mark" /\ pc'[h] = "idle") =>
                           /\ last'.resp = "OK"
                           /\ state'.store[req[h].id].status = StatusOf(vcon[h], success[h])
                           /\ state'.store[req[h].id].vcon_uuid = vcon[h].uuid]_vars

\* After a POST failure was tracked for one id, an event for another id was
\* built, posted and tracked as a success, the first entry being as it was.
C15_Witness ==
    \E a, b \in Ids :
        /\ a # b
        /\ HasEntry(a) /\ state.store[a].status = "post_failed"
        /\ HasEntry(b) /\ state.store[b].status = "success"
        /\ state.store[a].timestamp < state.store[b].timestamp
        /\ posts[b] = 1
        /\ last = [id |-> b, kind |-> "event", resp |-> "OK", how |-> "processed",
                   body |-> NoBody]

\* C16 (as claimed): a status query is answered 404 exactly when the id has
\* no tracker entry, and otherwise 200 with the record id and status of the
\* id's entry, which is what the most recent mark_processed for it wrote.
C16_StatusQuery ==
    last.kind = "status" =>
        /\ last.resp = "404" <=> ~HasEntry(last.id)
        /\ HasEntry(last.id) =>
              /\ last.resp = "200"
              /\ last.body = [vcon_uuid |-> state.store[last.id].vcon_uuid,
                              status    |-> state.store[last.id].status]

\* C17: post returns true iff a response came back with a status in
\* [200, 300); for every other status and for every exception raised while
\* serializing or sending it returns false; no exception leaves it.
C17_PosterResult ==
    out.fn = "post" =>
        /\ ~out.raised
        /\ out.ret <=> (/\ arg.serialize = "ok"
                        /\ arg.send = "response"
                        /\ arg.status \in 200..299)

\* A response with status 300 was reported as a failure.
C17_Witness ==
    /\ out.fn = "post"
    /\ arg.serialize = "ok"
    /\ arg.send = "response"
    /\ arg.status = 300
    /\ ~out.ret
    /\ out.sent

\* The order C18 gives for each platform (the other fetchers have one
\* strategy, the HTTP download).
ClaimedOrder ==
    CASE arg.c.platform = "asterisk"   -> <<"ari", "http", "file">>
      [] arg.c.platform = "freeswitch" -> <<"http", "file", "base">>
      [] OTHER                         -> <<"http">>

\* A strategy applies when what it needs is there: the ARI endpoint or the
\* URL base configured, an http(s) location, a file path in the payload.
Applicable(s) ==
    CASE s = "ari"  -> arg.c.ari_url
      [] s = "base" -> arg.c.url_base
      [] s = "file" -> arg.hasFile
      [] OTHER      -> arg.loc = "http" \/ arg.c.platform \notin {"asterisk", "freeswitch"}

Succeeded(s) == arg.o[s] \in {"ok", "empty"}

\* C18: the strategies attempted are attempted in the platform's order; a
\* strategy is attempted only if it applies and every applicable strategy
\* before it was attempted and failed; the content of the first success is
\* returned and nothing is attempted after it.
C18_FallbackOrder ==
    out.fn = "fetch" =>
        LET order == ClaimedOrder
            n     == Len(out.tried)
            At(s) == CHOOSE i \in 1..Len(order) : order[i] = s
        IN  /\ \A i \in 1..n : \E j \in 1..Len(order) : order[j] = out.tried[i]
            /\ \A i, j \in 1..n : i < j => At(out.tried[i]) < At(out.tried[j])
            /\ \A i \in 1..n :
                  /\ Applicable(out.tried[i])
                  /\ \A k \in 1..Len(order) :
                        (k < At(out.tried[i]) /\ Applicable(order[k])) =>
                            \E m \in 1..(i - 1) : out.tried[m] = order[k] /\ ~Succeeded(order[k])
            /\ out.res \in {"bytes", "empty"} <=> (n > 0 /\ Succeeded(out.tried[n]))
            /\ out.res = "none" =>
                  \A k \in 1..Len(order) :
                      Applicable(order[k]) =>
                          \E m \in 1..n : out.tried[m] = order[k] /\ ~Succeeded(order[k])

\* The Asterisk fetcher went through ARI and the direct URL, both failing,
\* and returned the content of the local file.
C18_Witness ==
    /\ out.fn = "fetch"
    /\ arg.c.platform = "asterisk"
    /\ out.tried = <<"ari", "http", "file">>
    /\ arg.o.ari = "status"
    /\ arg.o.http = "transport"
    /\ out.res = "bytes"

\* A record was built with a URL reference after a failed fetch of an mp3
\* recording.
C11_Witness ==
    /\ out.fn = "build"
    /\ out.vcon.built
    /\ out.fetched = "none"
    /\ out.dialog.url = <<"http", ".", "mp3">>
    /\ out.dialog.body = Absent


\* C19 (as claimed): whatever an individual field of the payload holds, the
\* parser resolves direction, duration and start time without raising, and the
\* event's record is built.
C19_ParseDegrades ==
    out.fn = "parse" =>
        /\ out.direction \notin Exceptions
        /\ out.duration_seconds \notin Exceptions
        /\ out.start_time \notin Exceptions
        /\ out.built


\* C20 (as claimed): recording_id, from_number and to_number are non-empty
\* whenever the primary key or one of the field's fallback keys holds a value,
\* and are the empty string only when none of them does.
C20_IdentifierFallback ==
    out.fn = "ident" =>
        LET present == \E i \in 1..Len(KeysOf(arg.platform, arg.field)) : arg.k[i] = "value"
        IN  /\ present => out.value = "value"
            /\ out.value = "empty" => ~present


\* The strings of the form PT[nH][nM][nS], n a number (the seconds possibly
\* with a decimal part), and the value the form stands for.
DurationForm(hp, mp, sp) == <<"P", "T">> \o hp \o mp \o sp

Part(letter) == {<<>>} \cup {<<n, letter>> : n \in Digits}

SecondsPart == Part("S") \cup {<<n, ".", f, "S">> : n \in Digits, f \in Digits}

PartVal(part) == IF part = <<>> THEN 0 ELSE NumVal(part[1])

\* C21 (as claimed): a duration string PT[nH][nM][nS] yields
\* hours*3600 + minutes*60 + seconds, absent components counting as zero, and
\* a missing or invalid duration yields no value (not zero, not an error).
C21_BandwidthDuration ==
    out.fn = "duration" =>
        IF arg.v.kind = "str"
           /\ \E hp \in Part("H"), mp \in Part("M"), sp \in SecondsPart :
                 arg.v.s = DurationForm(hp, mp, sp)
        THEN \E hp \in Part("H"), mp \in Part("M"), sp \in SecondsPart :
                 /\ arg.v.s = DurationForm(hp, mp, sp)
                 /\ out.value.kind = "float"
                 /\ out.value.seconds = PartVal(hp) * 3600 + PartVal(mp) * 60 + PartVal(sp)
                 /\ out.value.fraction = IF Len(sp) = 4 THEN sp[3] ELSE "0"
        ELSE out.value = NoDuration


\* Two strings that differ in the case of their letters at most.
SameIgnoringCase(s, t) ==
    /\ Len(s) = Len(t)
    /\ \A i \in 1..Len(s) : s[i].w = t[i].w

\* C22: the originator is 0 exactly when the direction is outbound,
\* outbound-api or outgoing up to the case of its letters, and 1 for every
\* other direction, the empty one included; it is never another value.
C22_Originator ==
    out.fn = "originator" =>
        /\ out.originator \in {0, 1}
        /\ out.originator = 0 <=>
              \E t \in {<<"outbound">>, <<"outbound", "-api">>, <<"outgoing">>} :
                  SameIgnoringCase(arg.direction, Literal(t))

\* Outbound-API, with capitals, was classified as originated by party 0.
C22_Witness ==
    /\ out.fn = "originator"
    /\ arg.direction = <<[w |-> "outbound", c |-> "upper"], [w |-> "-api", c |-> "upper"]>>
    /\ out.originator = 0


\* C24 (as claimed): platform_tags has an entry only for a field that is
\* present with a non-empty value; no tag has a null or empty value.
C24_TagsOmitAbsent ==
    out.fn = "tags" => \A t \in out.tags : t[2] = "value"


\* C23: every record build has returned has exactly the two parties
\* [from-number, to-number], exactly one dialog, of type recording and
\* referencing parties [0, 1], one source tag, naming the adapter, and an id
\* no other returned record has, records built from the same input included.
C23_RecordShape ==
    out.fn = "records" =>
        \A i \in 1..Len(out.returned) :
            LET r == out.returned[i].vcon
                a == out.returned[i].input
            IN  /\ Len(r.parties) = 2
                /\ r.parties[1].tel = a.from
                /\ r.parties[2].tel = a.to
                /\ Len(r.dialog) = 1
                /\ r.dialog[1].type = "recording"
                /\ r.dialog[1].parties = <<0, 1>>
                /\ {t \in r.tags : t[1] = "source"} = {<<"source", ADAPTER_SOURCE(a.platform)>>}
                /\ \A j \in 1..Len(out.returned) : j # i => out.returned[j].vcon.uuid # r.uuid

\* Two records were returned for the same event, with different numbers for
\* caller and callee.
C23_Witness ==
    /\ out.fn = "records"
    /\ Len(out.returned) = 2
    /\ out.returned[1].input = out.returned[2].input
    /\ out.returned[1].input.from = "+15551234567"
    /\ out.returned[1].input.to = "+15559876543"


\* The context names an outbound call: it contains outbound or from-internal
\* in whatever case.
NamesOutbound(ctx) ==
    /\ ctx.kind = "str"
    /\ \E i \in 1..Len(ctx.s) : ctx.s[i].w \in {"outbound", "from-internal"}

\* C25 (as claimed): with a non-empty direction the parser returns it in lower
\* case; otherwise it returns outbound when the context contains outbound or
\* from-internal, whatever the case, and inbound in every other case.
C25_AsteriskDirection ==
    out.fn = "direction" =>
        /\ out.value.kind = "str"
        /\ IF arg.d.kind = "str" /\ arg.d.s # <<>>
           THEN SameIgnoringCase(out.value.s, arg.d.s)
                /\ \A i \in 1..Len(out.value.s) : out.value.s[i].c = "lower"
           ELSE out.value.s = IF NamesOutbound(arg.ctx)
                              THEN Literal(<<"outbound">>) ELSE Literal(<<"inbound">>)


\* C26: while the process runs, a handler enters the build only from its
\* is_processed check, for an id without an entry; it goes to the POST only
\* from a build that returned a record, and to mark_processed only from a
\* failed build or from the POST; a POST is sent only by a handler that holds a
\* built record; the tracker and its file change only in the mark_processed
\* step, which the handler takes once, right before it returns its response.
C26_PipelineOrder ==
    [][restarts' = restarts =>
         /\ \A h \in Handlers :
               /\ (pc[h] # "build" /\ pc'[h] = "build") =>
                     pc[h] = "await" /\ req[h].kind = "event" /\ ~is_processed(state, req[h].id)
               /\ (pc[h] # "post" /\ pc'[h] = "post") => pc[h] = "build" /\ vcon'[h].built
               /\ (pc[h] # "mark" /\ pc'[h] = "mark") =>
                     \/ pc[h] = "build" /\ ~vcon'[h].built /\ posts' = posts
                     \/ pc[h] = "post"
               /\ (pc[h] \in {"build", "post", "mark"} /\ pc'[h] = "idle") =>
                     pc[h] = "mark" /\ last'.id = req[h].id /\ last'.how \in {"processed", "raised"}
               /\ pc[h] = "mark" => pc'[h] \in {"mark", "idle"}
         /\ posts' # posts =>
               \E h \in Handlers :
                   /\ pc[h] = "post" /\ pc'[h] = "mark" /\ vcon[h].built
                   /\ \A i \in Ids : posts'[i] # posts[i] => i = req[h].id
         /\ (state' # state \/ file' # file) =>
               \E h \in Handlers : pc[h] = "mark" /\ pc'[h] = "idle"]_vars

\* A handler holds a built record whose POST was sent and is about to call
\* mark_processed.
C26_Witness ==
    \E h \in Handlers :
        /\ pc[h] = "mark"
        /\ vcon[h].built
        /\ posts[req[h].id] > 0
        /\ ~is_processed(state, req[h].id)


\* The file holds an entry for the id.
FileHas(f, id) == f.kind = "object" /\ f.store[id] # NoEntry

\* C27 (as claimed): every entry that is in the file when mark_processed is
\* called, entries written by another instance included, is in the file after
\* the call.
C27_ReadModifyWrite ==
    [][arg'.fn = "mark" =>
          \A id \in Ids : FileHas(out.file, id) => FileHas(out'.file, id)]_vars

\* C27 (amended): mark_processed never reads the file.  A call on a dict
\* state whose write succeeds leaves in the file exactly the entries of the
\* calling instance's memory, the new one included: an entry of the file is
\* kept if and only if the instance holds it in memory.  A call on a list
\* state raises and leaves the file alone; a write that fails at open leaves
\* the file alone, and one that fails later leaves it without any entry.
C27_RewriteFromMemory ==
    [][arg'.fn = "mark" =>
          LET t  == arg'.t
              st == out.state[t]
          IN  /\ arg'.raised <=> st.kind # "dict"
              /\ arg'.raised => out'.file = out.file
              /\ (~arg'.raised /\ arg'.sv = "ok") =>
                    /\ out'.file.kind = "object"
                    /\ out'.file.store = out'.state[t].store
                    /\ \A id \in Ids \ {arg'.id} :
                          /\ out'.state[t].store[id] = st.store[id]
                          /\ FileHas(out'.file, id) <=> st.store[id] # NoEntry
                    /\ FileHas(out'.file, arg'.id)
              /\ (~arg'.raised /\ arg'.sv = "open_failed") => out'.file = out.file
              /\ (~arg'.raised /\ arg'.sv = "write_failed") =>
                    \A id \in Ids : ~FileHas(out'.file, id)]_vars

\* An instance has just rewritten the file, successfully, and an entry that
\* the other instance wrote is no longer in it.
C27_Witness ==
    /\ out.fn = "trackers"
    /\ arg.fn = "mark"
    /\ arg.sv = "ok"
    /\ ~arg.raised
    /\ \E t \in Trackers, id \in Ids :
          /\ t # arg.t
          /\ out.state[t].kind = "dict"
          /\ out.state[t].store[id] # NoEntry
          /\ out.state[arg.t].store[id] = NoEntry
          /\ ~FileHas(out.file, id)


\* C28 (as claimed): the handler that is between its is_processed check and
\* its return is the only one there, and a process issues at most one POST
\* per recording id: no id has had more POSTs than processes were started.
C28_OnePostPerId ==
    /\ \A h, g \in Handlers : (InPipeline(h) /\ InPipeline(g)) => h = g
    /\ \A id \in Ids : posts[id] <= restarts + 1

\* C29: a handler that is between its check and its return works on an id
\* that has no entry in the tracker nor in the file (the entry is written only
\* after the POST attempt); so when the process stops while a handler holds a
\* record whose POST has returned, the restarted tracker has no entry for the
\* id, and a later event for an id without an entry is not skipped: it is
\* built, and POSTed once build returns a record.
C29_CrashWindow ==
    [][/\ \A h \in Handlers :
             InPipeline(h) => ~HasEntry(req[h].id) /\ ~InFile(req[h].id)
       /\ restarts' # restarts =>
             \A h \in Handlers :
                 pc[h] = "mark" =>
                     /\ state'.store[req[h].id] = NoEntry
                     /\ ~is_processed(state', req[h].id)
       /\ restarts' = restarts =>
             \A h \in Handlers :
                 /\ (/\ pc[h] = "await" /\ pc'[h] # "await"
                     /\ req[h].kind = "event"
                     /\ ~HasEntry(req[h].id) /\ req[h].id \notin state.items) =>
                        pc'[h] = "build"
                 /\ (pc[h] = "build" /\ pc'[h] # "build" /\ vcon'[h].built) =>
                        pc'[h] = "post"]_vars

\* The process stopped after the POST for an id and before its handler
\* returned; after the restart an event for the id was built and POSTed again.
C29_Witness ==
    \E h \in Handlers :
        /\ restarts = 1
        /\ pc[h] = "mark"
        /\ vcon[h].built
        /\ posts[req[h].id] = 2
        /\ req[h].id \notin completed
        /\ state.kind = "dict"


\* C30: for an Asterisk event without a recording location build does not
\* call the fetcher, whatever the download setting, the ARI endpoint and the
\* file path derived from the recording id, and the dialog of the record has
\* no embedded audio and no URL.
C30_AsteriskNoLocation ==
    (out.fn = "build" /\ arg.c.platform = "asterisk" /\ arg.loc = "none") =>
        /\ out.fetched = "skip"
        /\ out.vcon.fetch = "not_invoked"
        /\ out.vcon.built =>
              /\ out.vcon.audio = "none"
              /\ out.dialog = [body |-> Absent, encoding |-> Absent,
                               filename |-> Absent, url |-> Absent]

\* A record was built for an Asterisk event without location, with download
\* enabled, an ARI endpoint configured and a file path known, every retrieval
\* being able to succeed.
C30_Witness ==
    /\ out.fn = "build"
    /\ arg.c.platform = "asterisk"
    /\ arg.c.download
    /\ arg.c.ari_url
    /\ arg.hasFile
    /\ arg.loc = "none"
    /\ arg.o.ari = "ok"
    /\ arg.o.file = "ok"
    /\ out.vcon.built

====
